---- MODULE Spec2Model ----
(***************************************************************************)
(* State-machine model of the hypocaust-2 trap path: trap_handler and its  *)
(* sub-handlers (src/src/trap/mod.rs), the world switch, and the SBI       *)
(* virtual firmware of src/src/guest/sbi.rs; and of the memory sets of     *)
(* src/src/mm/memory_set.rs (MapArea, new_guest, new_host_vmm), which have *)
(* specifications of their own (SpecArea, SpecGuest, SpecHost).            *)
(*                                                                         *)
(* One hart.  The hart is either running the guest (pc = "guest"), at some *)
(* position of trap_handler / switch_to_guest, or stopped for good         *)
(* ("panicked": a panic!/todo!; "spinning": waiting for a mutex that is    *)
(* never released).                                                        *)
(*                                                                         *)
(* Register values are modelled by their two's-complement signed reading,  *)
(* so `SBI_ERR_NOT_SUPPORTED as usize` is the integer -2 and usize::MAX is *)
(* -1.  Guest program counters are drawn far from the end of the address   *)
(* space, where `sepc += len` does not overflow.                           *)
(***************************************************************************)
EXTENDS Integers, Sequences, FiniteSets, TLC

VARIABLES
    pc,             \* position of the hart
    scause,         \* trap cause of the trap being handled (scause.cause())
    ctx,            \* the TrapContext at TRAP_CONTEXT: x[..], sepc, hgatp
    lock_held,      \* the HostVmm mutex
    err,            \* trap_handler's local `err`
    timer,          \* machine-firmware timer programmed by sbi::set_timer
    hvip_vstip,     \* hvip.vstip
    sie_stimer,     \* sie.stimer
    console_tx,     \* bytes put on the host console while handling this trap
    console_rx,     \* what console_getchar() returns next
    htval, htinst, stval,   \* guest-page-fault CSRs
    hgatp,          \* hardware hgatp
    stvec,          \* hardware stvec
    vsstatus, vsip, vsie, vstvec, vsepc, vscause,   \* VS-level CSRs
    guest_id,       \* host_vmm.guest_id
    irq_pending,    \* host_vmm.irq_pending
    claim_complete, \* host_vmm.host_plic.claim_complete[context_id]
    trace,          \* what the hypervisor did since this trap was taken
    xlate_calls,    \* guest VAs passed to two_stage_translation in this trap
    decoded,        \* result of decode_inst_at_addr in this trap, or NoDecode
    plic_calls,     \* arguments of handle_plic_access calls in this trap
    host_plic_reads,\* host PLIC registers read in this trap: address, value
    at_entry,       \* TrapContext and timer state when this trap was taken
    mpc,            \* position of the memory-set operation under way
    input,          \* what a memory set is built from: ELF, machine, layout
    areas,          \* memory_set.areas
    page_table,     \* memory_set.page_table: vpn -> [ppn, flags], valid PTEs
    guest_mem,      \* the copies new_guest made into host physical memory
    loader,         \* locals of the builder: paddr, last_paddr, loop index
    frames_in_use   \* frames handed out by frame_alloc and not yet dropped

vars == << pc, scause, ctx, lock_held, err, timer, hvip_vstip, sie_stimer,
           console_tx, console_rx, htval, htinst, stval, hgatp, stvec,
           vsstatus, vsip, vsie, vstvec, vsepc, vscause, guest_id,
           irq_pending, claim_complete, trace, xlate_calls, decoded,
           plic_calls, host_plic_reads, at_entry,
           mpc, input, areas, page_table, guest_mem, loader, frames_in_use >>

\* The variables of the trap path; the memory-set operations leave them alone.
trapvars == << pc, scause, ctx, lock_held, err, timer, hvip_vstip,
               sie_stimer, console_tx, console_rx, htval, htinst, stval,
               hgatp, stvec, vsstatus, vsip, vsie, vstvec, vsepc, vscause,
               guest_id, irq_pending, claim_complete, trace, xlate_calls,
               decoded, plic_calls, host_plic_reads, at_entry >>

\* The variables of the memory sets; the trap path leaves them alone.
memvars == << mpc, input, areas, page_table, guest_mem, loader,
              frames_in_use >>

----------------------------------------------------------------------------
(* Constants of the SBI interface and of the register file.                *)

A0 == 10
A1 == 11
A6 == 16
A7 == 17
Gprs == {A0, A1, A6, A7}

SBI_SET_TIMER == 0
SBI_CONSOLE_PUTCHAR == 1
SBI_CONSOLE_GETCHAR == 2
SBI_EXTID_BASE == 16
SBI_EXTID_TIME == 1414090053
SBI_SET_TIMER_FID == 0
SBI_SUCCESS == 0
SBI_ERR_NOT_SUPPORTED == -2

SBI_GET_SBI_SPEC_VERSION_FID == 0
SBI_GET_SBI_IMPL_ID_FID == 1
SBI_GET_SBI_IMPL_VERSION_FID == 2
SBI_PROBE_EXTENSION_FID == 3
SBI_GET_MVENDORID_FID == 4
SBI_GET_MARCHID_FID == 5
SBI_GET_MIMPID_FID == 6

PLIC_BASE == 201326592
PLIC_SIZE == 67108864

----------------------------------------------------------------------------
(* Input domains.                                                          *)

Causes == { "UserEnvCall", "VirtualSupervisorEnvCall", "VirtualInstruction",
            "IllegalInstruction", "InstructionGuestPageFault",
            "LoadGuestPageFault", "StoreGuestPageFault",
            "SupervisorExternal", "Other" }

ExtIds == { SBI_SET_TIMER, SBI_CONSOLE_PUTCHAR, SBI_CONSOLE_GETCHAR,
            SBI_EXTID_BASE, SBI_EXTID_TIME, 3 }
BaseFids == { 0, 1, 3 }
TimeFids == { 0, 7 }
Arg0s == { 0, 65 }
Arg1s == { 0, 9 }
Sepcs == { 4096, 8194 }
RxBytes == { 66, -1 }
\* htval is the guest PA >> 2: the PLIC claim register 0xC20_1004, the
\* UART at 0x1000_0000 (the first address past the PLIC window) and the
\* CLINT at 0x200_0000 (below it).
Htvals == { 50857985, 67108864, 8388608 }
Htinsts == { 0, 12320, 12288, 8563 }
Stvals == { 203427844 }
Vstvecs == { 12288 }
Irqs == { 0, 10 }
GuestIds == { 0, 1 }
Contexts == { 0, 1, 2, 3 }
Errors == { "Unimplemented", "DecodeInstError", "TranslationError",
            "PseudoInst", "DeviceNotFound", "PlicError" }
Insts == { "Lw", "Sw" }
NoDecode == [len |-> 0, inst |-> "None"]
GuestHgatps == { 1 }

----------------------------------------------------------------------------
(* Helpers.                                                                *)

Regs(a0, a1, a6, a7) == (A0 :> a0) @@ (A1 :> a1) @@ (A6 :> a6) @@ (A7 :> a7)

ZeroRegs == Regs(0, 0, 0, 0)

Has(seq, e) == \E i \in 1..Len(seq) : seq[i] = e

Count(seq, e) == Cardinality({ i \in 1..Len(seq) : seq[i] = e })

\* Index of the first occurrence of e in seq (0 when there is none).
First(seq, e) ==
    IF Has(seq, e) THEN CHOOSE i \in 1..Len(seq) :
                            seq[i] = e /\ \A j \in 1..(i - 1) : seq[j] # e
    ELSE 0

\* scause.bits() as (interrupt bit 63, exception code).
ScauseBits(c) ==
    IF c = "SupervisorExternal" THEN [interrupt |-> TRUE, code |-> 9]
    ELSE [interrupt |-> FALSE, code |-> 0]

\* Mutex::lock() on the HostVmm mutex: the caller waits while it is held.
MutexBlocks(held) == held

\* is_plic_access(addr): addr lies in the emulated PLIC's MMIO window.
is_plic_access(addr) == PLIC_BASE <= addr /\ addr < PLIC_BASE + PLIC_SIZE

----------------------------------------------------------------------------
(* sbi_handler of trap/mod.rs, the handler trap_handler calls.  The result *)
(* holds the context it leaves, the bytes it emits, the timer value it     *)
(* programs (a sequence of zero or one value) and its VmmResult.           *)

SbiEffect(c, tx, tm, res) == [ctx |-> c, tx |-> tx, timer |-> tm, res |-> res]

sbi_handler(c, rx) ==
    CASE c.x[A7] = SBI_CONSOLE_PUTCHAR ->
             SbiEffect(c, << c.x[A0] >>, << >>, "Ok")
      [] c.x[A7] = SBI_CONSOLE_GETCHAR ->
             SbiEffect([c EXCEPT !.x[A0] = rx], << >>, << >>, "Ok")
      [] c.x[A7] = SBI_SET_TIMER ->
             SbiEffect(c, << >>, << c.x[A0] >>, "Ok")
      [] OTHER ->
             SbiEffect(c, << >>, << >>, "Unimplemented")

\* ctx.sepc += 4 after the ecall arm.
EcallAdvance(sepc) == sepc + 4

\* Mutant: the pc is advanced by a fixed 4 whatever the instruction's length.
AdvanceByFour(sepc, len) == sepc + 4

\* ctx.sepc += len after a PLIC access was emulated.
AdvanceByLen(sepc, len) == sepc + len

----------------------------------------------------------------------------
(* The SBI virtual firmware of guest/sbi.rs.  An SbiRet is [error, value]; *)
(* `fw` is what the machine firmware or the SBI runtime answers.           *)

SbiRet(e, v) == [error |-> e, value |-> v]

VsEffect(ret, tx, tm, csr) ==
    [ret |-> ret, tx |-> tx, timer |-> tm, timer_csrs |-> csr]

sbi_base_handler(fid, c, fw) ==
    CASE fid = SBI_GET_SBI_SPEC_VERSION_FID -> VsEffect(fw, << >>, << >>, FALSE)
      [] fid = SBI_PROBE_EXTENSION_FID -> VsEffect(fw, << >>, << >>, FALSE)
      [] fid \in { SBI_GET_SBI_IMPL_ID_FID, SBI_GET_SBI_IMPL_VERSION_FID,
                   SBI_GET_MVENDORID_FID, SBI_GET_MARCHID_FID,
                   SBI_GET_MIMPID_FID } ->
             VsEffect(SbiRet(SBI_SUCCESS, fw.value), << >>, << >>, FALSE)
      [] OTHER -> "panic"

sbi_console_putchar_handler(ch) ==
    VsEffect(SbiRet(SBI_SUCCESS, 0), << ch >>, << >>, FALSE)

sbi_console_getchar_handler(rx) ==
    VsEffect(SbiRet(SBI_SUCCESS, rx), << >>, << >>, FALSE)

sbi_time_handler(stime, fid) ==
    IF fid # SBI_SET_TIMER_FID
    THEN VsEffect(SbiRet(SBI_ERR_NOT_SUPPORTED, 0), << >>, << >>, FALSE)
    ELSE VsEffect(SbiRet(SBI_SUCCESS, 0), << >>, << stime >>, TRUE)

sbi_legacy_set_time(stime) ==
    VsEffect(SbiRet(SBI_SUCCESS, 0), << >>, << stime >>, TRUE)

\* The effect of sbi_vs_handler, or "panic" for an unsupported call.
sbi_vs_handler(c, rx, fw) ==
    LET ext_id == c.x[A7]
        fid == c.x[A6]
    IN  CASE ext_id = SBI_EXTID_BASE -> sbi_base_handler(fid, c, fw)
          [] ext_id = SBI_EXTID_TIME -> sbi_time_handler(c.x[A0], fid)
          [] ext_id = SBI_CONSOLE_PUTCHAR -> sbi_console_putchar_handler(c.x[A0])
          [] ext_id = SBI_CONSOLE_GETCHAR -> sbi_console_getchar_handler(rx)
          [] ext_id = SBI_SET_TIMER -> sbi_legacy_set_time(c.x[A0])
          [] OTHER -> "panic"

----------------------------------------------------------------------------
(* Interrupt handling.                                                     *)

\* Mutant: the M-mode context of the hart (even) instead of the S-mode one.
ContextIdOfMMode(gid) == 2 * gid

\* context_id of the current guest in handle_irq.
ContextId(gid) == 2 * gid + 1

\* Mutant: in VU-mode a pending bit is enough, enabled in vsie or not.
ForwardCondIgnoringVsie(st, ip, ie) ==
    (st.spp /\ st.sie) \/ (~st.spp /\ ip # {})

\* The delivery condition of maybe_forward_interrupt.
ForwardCond(st, ip, ie) ==
    (st.spp /\ st.sie) \/ (~st.spp /\ (ip \cap ie) # {})

----------------------------------------------------------------------------
(* handle_plic_access (the PLIC access emulator): it returns a VmmResult;  *)
(* a guest load of the claim/complete register puts the most recently      *)
(* claimed IRQ in the destination register (a0 here) and clears the latch: *)
(* claim_complete of the guest's context and, the claim being the "next    *)
(* claim" that clears it, host_vmm.irq_pending.                            *)

PlicOk(c, cc, p) ==
    [res |-> "Ok", ctx |-> c, claim_complete |-> cc, irq_pending |-> p]

\* Mutant: a claim leaves irq_pending as it is.
PlicAccessKeepsPending(c, cc, gid, inst) ==
    { [res |-> "PlicError", ctx |-> c, claim_complete |-> cc,
       irq_pending |-> irq_pending],
      IF inst = "Lw"
      THEN PlicOk([c EXCEPT !.x[A0] = cc[ContextId(gid)]],
                  [cc EXCEPT ![ContextId(gid)] = 0], irq_pending)
      ELSE PlicOk(c, cc, irq_pending) }

handle_plic_access(c, cc, gid, inst) ==
    { [res |-> "PlicError", ctx |-> c, claim_complete |-> cc,
       irq_pending |-> irq_pending],
      IF inst = "Lw"
      THEN PlicOk([c EXCEPT !.x[A0] = cc[ContextId(gid)]],
                  [cc EXCEPT ![ContextId(gid)] = 0], FALSE)
      ELSE PlicOk(c, cc, irq_pending) }

\* two_stage_translation: Some(host_va) or None.
TranslationResults == { "Some", "None" }

\* decode_inst_at_addr: (len, Some(inst)) or (len, None).
DecodeResults == [len : {2, 4}, inst : Insts \cup {"None"}]


----------------------------------------------------------------------------
(* Initial state: the hypervisor has booted (trap::init ran), built the    *)
(* guest, and calls switch_to_guest for the first time.  hvip.vstip and    *)
(* sie.stimer are whatever boot left.                                      *)

\* A map with no entry (an empty page table, an empty BTreeMap).
EmptyMap == [v \in {} |-> 0]

\* No memory-set operation is under way: the memory sets are built during
\* boot, before the first world switch, and the trap path does not change
\* them.
MemIdle ==
    /\ mpc = "idle"
    /\ input = [kind |-> "none"]
    /\ areas = << >>
    /\ page_table = EmptyMap
    /\ guest_mem = << >>
    /\ loader = [i |-> 0]
    /\ frames_in_use = {}

Snapshot(c) ==
    [ctx |-> c, timer |-> timer, hvip_vstip |-> hvip_vstip,
     sie_stimer |-> sie_stimer, vsepc |-> vsepc, vscause |-> vscause,
     irq_pending |-> irq_pending, claim_complete |-> claim_complete,
     hgatp |-> hgatp]

Init ==
    /\ pc = "switch"
    /\ scause = "None"
    /\ \E h \in GuestHgatps : ctx = [x |-> ZeroRegs, sepc |-> 4096, hgatp |-> h]
    /\ lock_held = FALSE
    /\ err = "None"
    /\ timer = 0
    /\ hvip_vstip \in BOOLEAN
    /\ sie_stimer \in BOOLEAN
    /\ console_tx = << >>
    /\ console_rx = -1
    /\ htval = 0 /\ htinst = 0 /\ stval = 0
    /\ hgatp = 0
    /\ stvec = "__alltraps_k"
    /\ vsstatus = [spp |-> FALSE, sie |-> FALSE]
    /\ vsip = {} /\ vsie = {}
    /\ vstvec = 0 /\ vsepc = 0
    /\ vscause = [interrupt |-> FALSE, code |-> 0]
    /\ guest_id \in GuestIds
    /\ irq_pending = FALSE
    /\ claim_complete = [c \in Contexts |-> 0]
    /\ trace = << >>
    /\ xlate_calls = << >>
    /\ decoded = NoDecode
    /\ plic_calls = << >>
    /\ host_plic_reads = << >>
    /\ MemIdle
    /\ at_entry = [ctx |-> ctx, timer |-> 0, hvip_vstip |-> hvip_vstip,
                   sie_stimer |-> sie_stimer, vsepc |-> 0,
                   vscause |-> [interrupt |-> FALSE, code |-> 0],
                   irq_pending |-> FALSE,
                   claim_complete |-> [c \in Contexts |-> 0], hgatp |-> 0]

----------------------------------------------------------------------------
(* The guest runs until it traps.  The trampoline saves its registers and  *)
(* pc in the TrapContext; the hardware sets scause and, on a guest-page    *)
(* fault, htval/htinst/stval (zero otherwise).  The guest owns the VS-level*)
(* CSRs: their values are drawn for the cause whose handler reads them and *)
(* are one fixed value for the others.                                     *)

\* The fids tried with each extension: the handlers of the legacy calls never
\* read a6.
FidsOf(ext) ==
    IF ext = SBI_EXTID_BASE THEN BaseFids
    ELSE IF ext = SBI_EXTID_TIME THEN TimeFids
    ELSE { 0 }

RegInputs(c) ==
    IF c = "VirtualSupervisorEnvCall"
    THEN UNION { { Regs(a0, a1, a6, a7) :
                       a0 \in Arg0s, a1 \in Arg1s, a6 \in FidsOf(a7) }
                 : a7 \in ExtIds }
    ELSE { Regs(0, 9, 0, 0) }

RxInputs(regs) ==
    IF regs[A7] = SBI_CONSOLE_GETCHAR THEN RxBytes ELSE { -1 }

FaultInputs(c) ==
    IF c \in { "LoadGuestPageFault", "StoreGuestPageFault" }
    THEN [htval : Htvals, htinst : Htinsts, stval : Stvals]
    ELSE IF c = "InstructionGuestPageFault"
    THEN [htval : { 1024 }, htinst : { 0 }, stval : { 4096 }]
    ELSE [htval : { 0 }, htinst : { 0 }, stval : { 0 }]

VsInputs(c) ==
    IF c = "SupervisorExternal"
    THEN [vsstatus : [spp : BOOLEAN, sie : BOOLEAN],
          vsip : { {}, {9} }, vsie : { {}, {5}, {9} }, vstvec : Vstvecs]
    ELSE { [vsstatus |-> [spp |-> FALSE, sie |-> FALSE], vsip |-> {},
            vsie |-> {}, vstvec |-> 0] }

GuestTrap ==
    /\ pc = "guest"
    /\ \E c \in Causes, s \in Sepcs :
         \E regs \in RegInputs(c), f \in FaultInputs(c), v \in VsInputs(c) :
           \E rx \in RxInputs(regs) :
             /\ scause' = c
             /\ ctx' = [ctx EXCEPT !.x = regs, !.sepc = s]
             /\ console_rx' = rx
             /\ htval' = f.htval /\ htinst' = f.htinst /\ stval' = f.stval
             /\ vsstatus' = v.vsstatus /\ vsip' = v.vsip /\ vsie' = v.vsie
             /\ vstvec' = v.vstvec
             /\ at_entry' = Snapshot(ctx')
    /\ pc' = "trap_entry"
    /\ trace' = << >>
    /\ xlate_calls' = << >>
    /\ decoded' = NoDecode
    /\ plic_calls' = << >>
    /\ host_plic_reads' = << >>
    /\ console_tx' = << >>
    /\ UNCHANGED << lock_held, err, timer, hvip_vstip, sie_stimer, hgatp,
                    stvec, vsepc, vscause, guest_id, irq_pending,
                    claim_complete >>
    /\ UNCHANGED memvars

----------------------------------------------------------------------------
(* trap_handler.                                                           *)

\* panic!/todo!: the hart stops; nothing is unwound, a held guard stays held.
Panic ==
    /\ pc' = "panicked"
    /\ trace' = Append(trace, "panic")

\* lines 163-167: take the HostVmm lock, err = None.
AcquireLock ==
    /\ pc = "trap_entry"
    /\ IF MutexBlocks(lock_held)
       THEN /\ pc' = "spinning"
            /\ trace' = Append(trace, "lock_wait")
            /\ UNCHANGED << lock_held, err >>
       ELSE /\ pc' = "dispatch"
            /\ lock_held' = TRUE
            /\ err' = "None"
            /\ trace' = Append(trace, "lock")
    /\ UNCHANGED << scause, ctx, timer, hvip_vstip, sie_stimer, console_tx,
                    console_rx, htval, htinst, stval, hgatp, stvec, vsstatus,
                    vsip, vsie, vstvec, vsepc, vscause, guest_id, irq_pending,
                    claim_complete, xlate_calls, decoded, plic_calls,
                    at_entry,
                    host_plic_reads >>
    /\ UNCHANGED memvars

\* The arms that panic at once: UserEnvCall (170), IllegalInstruction (185),
\* any other cause (210), and VirtualInstruction, whose handler is todo!().
PanicCauses == { "UserEnvCall", "IllegalInstruction", "Other",
                 "VirtualInstruction" }

FatalTrap ==
    /\ pc = "dispatch"
    /\ scause \in PanicCauses
    /\ Panic
    /\ UNCHANGED << scause, ctx, lock_held, err, timer, hvip_vstip,
                    sie_stimer, console_tx, console_rx, htval, htinst, stval,
                    hgatp, stvec, vsstatus, vsip, vsie, vstvec, vsepc,
                    vscause, guest_id, irq_pending, claim_complete,
                    xlate_calls, decoded, plic_calls, at_entry,
                    host_plic_reads >>
    /\ UNCHANGED memvars

\* lines 172-177: the ecall arm.
VirtualSupervisorEnvCall ==
    /\ pc = "dispatch"
    /\ scause = "VirtualSupervisorEnvCall"
    /\ LET r == sbi_handler(ctx, console_rx)
       IN  /\ ctx' = [r.ctx EXCEPT !.sepc = EcallAdvance(r.ctx.sepc)]
           /\ err' = IF r.res = "Ok" THEN err ELSE r.res
           /\ console_tx' = console_tx \o r.tx
           /\ timer' = IF r.timer = << >> THEN timer ELSE r.timer[1]
    /\ pc' = "drop"
    /\ trace' = Append(trace, "sbi_handler")
    /\ UNCHANGED << scause, lock_held, hvip_vstip, sie_stimer, console_rx,
                    htval, htinst, stval, hgatp, stvec, vsstatus, vsip, vsie,
                    vstvec, vsepc, vscause, guest_id, irq_pending,
                    claim_complete, xlate_calls, decoded, plic_calls,
                    at_entry,
                    host_plic_reads >>
    /\ UNCHANGED memvars

\* lines 187-200: the instruction guest-page fault arm locks HOST_VMM again,
\* translates the guest pc, prints, and panics.
InstructionGuestPageFault ==
    /\ pc = "dispatch"
    /\ scause = "InstructionGuestPageFault"
    /\ IF MutexBlocks(lock_held)
       THEN /\ pc' = "spinning"
            /\ trace' = Append(trace, "lock_wait")
            /\ UNCHANGED << lock_held, xlate_calls >>
       ELSE /\ lock_held' = TRUE
            /\ xlate_calls' = Append(xlate_calls, ctx.sepc)
            /\ pc' = "panicked"
            /\ trace' = trace \o << "lock", "translate", "herror", "panic" >>
    /\ UNCHANGED << scause, ctx, err, timer, hvip_vstip, sie_stimer,
                    console_tx, console_rx, htval, htinst, stval, hgatp,
                    stvec, vsstatus, vsip, vsie, vstvec, vsepc, vscause,
                    guest_id, irq_pending, claim_complete, decoded,
                    plic_calls, at_entry,
                    host_plic_reads >>
    /\ UNCHANGED memvars

----------------------------------------------------------------------------
(* guest_page_fault_handler (lines 69-108), as the set of its outcomes in  *)
(* the current state: one per answer of two_stage_translation, of          *)
(* decode_inst_at_addr and of the PLIC access emulator.  `res` is "Ok", an *)
(* error kind, or "todo" for the unimplemented branch.                     *)

GpfOutcome(res, c, cc, xl, d, pl) ==
    [res |-> res, ctx |-> c, claim_complete |-> cc, xlate_calls |-> xl,
     decoded |-> d, plic_calls |-> pl, irq_pending |-> irq_pending]

\* The outcome o of the handler when the emulator returned r: host_vmm is
\* as the emulator left it.
AfterEmulator(o, r) == [o EXCEPT !.irq_pending = r.irq_pending]

\* Mutant: only 0x3020 is taken for a pseudo-instruction.
PseudoInstsWithout3000 == { 12320 }

\* line 94: 0x3020 and 0x3000.
PseudoInsts == { 12320, 12288 }

\* Mutant: ctx.sepc is advanced before the emulator's result is looked at.
FetchAdvancesBeforeEmulation ==
    LET xl == Append(xlate_calls, ctx.sepc)
    IN  UNION { IF t = "None"
                THEN { GpfOutcome("TranslationError", ctx, claim_complete,
                                  xl, decoded, plic_calls) }
                ELSE UNION { IF d.inst = "None"
                             THEN { GpfOutcome("DecodeInstError", ctx,
                                               claim_complete, xl, d,
                                               plic_calls) }
                             ELSE { AfterEmulator(GpfOutcome(r.res,
                                      [r.ctx EXCEPT !.sepc =
                                          AdvanceByLen(r.ctx.sepc, d.len)],
                                      r.claim_complete, xl, d,
                                      Append(plic_calls,
                                             [ctx |-> ctx, stval |-> stval,
                                              inst |-> d.inst])), r)
                                    : r \in handle_plic_access(ctx,
                                               claim_complete, guest_id,
                                               d.inst) }
                             : d \in DecodeResults }
                : t \in TranslationResults }

\* lines 76-93: htinst == 0, the instruction is read from guest memory.
FetchAndEmulate ==
    LET xl == Append(xlate_calls, ctx.sepc)
    IN  UNION { IF t = "None"
                THEN { GpfOutcome("TranslationError", ctx, claim_complete,
                                  xl, decoded, plic_calls) }
                ELSE UNION { IF d.inst = "None"
                             THEN { GpfOutcome("DecodeInstError", ctx,
                                               claim_complete, xl, d,
                                               plic_calls) }
                             ELSE { AfterEmulator(
                                    IF r.res = "Ok"
                                    THEN GpfOutcome("Ok",
                                           [r.ctx EXCEPT !.sepc =
                                               AdvanceByLen(r.ctx.sepc, d.len)],
                                           r.claim_complete, xl, d,
                                           Append(plic_calls,
                                                  [ctx |-> ctx, stval |-> stval,
                                                   inst |-> d.inst]))
                                    ELSE GpfOutcome(r.res, r.ctx,
                                           r.claim_complete, xl, d,
                                           Append(plic_calls,
                                                  [ctx |-> ctx, stval |-> stval,
                                                   inst |-> d.inst])), r)
                                    : r \in handle_plic_access(ctx,
                                               claim_complete, guest_id,
                                               d.inst) }
                             : d \in DecodeResults }
                : t \in TranslationResults }

\* Mutant: the fault address is not checked against the PLIC window.
GpfWithoutWindowCheck ==
    LET same(res) == GpfOutcome(res, ctx, claim_complete, xlate_calls,
                                decoded, plic_calls)
    IN  IF htinst = 0 THEN FetchAndEmulate
        ELSE IF htinst \in PseudoInsts THEN { same("PseudoInst") }
        ELSE { same("todo") }

guest_page_fault_handler ==
    LET addr == htval * 4
        same(res) == GpfOutcome(res, ctx, claim_complete, xlate_calls,
                                decoded, plic_calls)
    IN  IF is_plic_access(addr)
        THEN IF htinst = 0 THEN FetchAndEmulate
             ELSE IF htinst \in PseudoInsts THEN { same("PseudoInst") }
             ELSE { same("todo") }
        ELSE { same("DeviceNotFound") }

\* lines 201-205: the load/store guest-page fault arm.
LoadStoreGuestPageFault ==
    /\ pc = "dispatch"
    /\ scause \in { "LoadGuestPageFault", "StoreGuestPageFault" }
    /\ \E o \in guest_page_fault_handler :
         /\ ctx' = o.ctx
         /\ claim_complete' = o.claim_complete
         /\ irq_pending' = o.irq_pending
         /\ xlate_calls' = o.xlate_calls
         /\ decoded' = o.decoded
         /\ plic_calls' = o.plic_calls
         /\ err' = IF o.res \in { "Ok", "todo" } THEN err ELSE o.res
         /\ pc' = IF o.res = "todo" THEN "panicked" ELSE "drop"
         /\ trace' = trace \o << "guest_page_fault_handler" >>
                           \o (IF o.res = "todo" THEN << "panic" >> ELSE << >>)
    /\ UNCHANGED << scause, lock_held, timer, hvip_vstip, sie_stimer,
                    console_tx, console_rx, htval, htinst, stval, hgatp,
                    stvec, vsstatus, vsip, vsie, vstvec, vsepc, vscause,
                    guest_id, at_entry, host_plic_reads >>
    /\ UNCHANGED memvars

----------------------------------------------------------------------------
(* handle_irq (139-154) and maybe_forward_interrupt (111-135).             *)

\* line 145: claim_and_complete_addr (0x0020_0004 + 0x1000 * context_id).
claim_and_complete_addr(base_addr, gid) ==
    base_addr + 2097156 + 4096 * ContextId(gid)

\* host_plic.base_addr: the base of the machine's PLIC.
host_plic_base_addr == PLIC_BASE

\* host_plic.claim_complete after handle_irq read `irq` from the host PLIC.
handle_irq(cc, gid, irq) == [cc EXCEPT ![ContextId(gid)] = irq]

\* Mutant: ctx.sepc is overwritten before it is saved in vsepc.
ForwardSavesAfterJump(pending, c, cause) ==
    IF pending /\ ForwardCond(vsstatus, vsip, vsie)
    THEN [ctx |-> [c EXCEPT !.sepc = vstvec], vsepc |-> vstvec,
          vscause |-> ScauseBits(cause), forwarded |-> TRUE]
    ELSE [ctx |-> c, vsepc |-> vsepc, vscause |-> vscause,
          forwarded |-> FALSE]

\* What maybe_forward_interrupt leaves in ctx, vsepc and vscause.
maybe_forward_interrupt(pending, c, cause) ==
    IF pending /\ ForwardCond(vsstatus, vsip, vsie)
    THEN [ctx |-> [c EXCEPT !.sepc = vstvec], vsepc |-> c.sepc,
          vscause |-> ScauseBits(cause), forwarded |-> TRUE]
    ELSE [ctx |-> c, vsepc |-> vsepc, vscause |-> vscause,
          forwarded |-> FALSE]

\* lines 206-209: the external-interrupt arm.
SupervisorExternal ==
    /\ pc = "dispatch"
    /\ scause = "SupervisorExternal"
    /\ \E irq \in Irqs :
         /\ host_plic_reads' =
                Append(host_plic_reads,
                       [addr |-> claim_and_complete_addr(host_plic_base_addr,
                                                         guest_id),
                        value |-> irq])
         /\ claim_complete' = handle_irq(claim_complete, guest_id, irq)
    /\ irq_pending' = TRUE
    /\ LET f == maybe_forward_interrupt(irq_pending', ctx, scause)
       IN  /\ ctx' = f.ctx
           /\ vsepc' = f.vsepc
           /\ vscause' = f.vscause
           /\ trace' = trace \o << "handle_irq" >>
                             \o (IF f.forwarded THEN << "forward" >>
                                 ELSE << >>)
    /\ pc' = "drop"
    /\ UNCHANGED << scause, lock_held, err, timer, hvip_vstip, sie_stimer,
                    console_tx, console_rx, htval, htinst, stval, hgatp,
                    stvec, vsstatus, vsip, vsie, vstvec, guest_id,
                    xlate_calls, decoded, plic_calls, at_entry >>
    /\ UNCHANGED memvars

----------------------------------------------------------------------------
(* The end of trap_handler (212-217) and switch_to_guest (224-251).        *)

\* Mutant: the guard is not dropped before the world switch.
DropGuardForgotten(held) == held

\* drop(host_vmm): the mutex after the guard is dropped.
DropGuard(held) == FALSE

\* Mutant: the recorded error is ignored.
AfterDropIgnoresErr(e) == "switch"

\* Where trap_handler goes once the lock is dropped (213-217).
AfterDrop(e) == IF e # "None" THEN "sink" ELSE "switch"

DropLock ==
    /\ pc = "drop"
    /\ lock_held' = DropGuard(lock_held)
    /\ trace' = Append(trace, "unlock")
    /\ pc' = AfterDrop(err)
    /\ UNCHANGED << scause, ctx, err, timer, hvip_vstip, sie_stimer,
                    console_tx, console_rx, htval, htinst, stval, hgatp,
                    stvec, vsstatus, vsip, vsie, vstvec, vsepc, vscause,
                    guest_id, irq_pending, claim_complete, xlate_calls,
                    decoded, plic_calls, at_entry,
                    host_plic_reads >>
    /\ UNCHANGED memvars

\* Mutant: the sink returns to its caller, which goes on to switch_to_guest.
AfterInternalVmmErrorReturns == "switch"

\* handle_internal_vmm_error is todo!(): the hart stops there.
AfterInternalVmmError == "panicked"

handle_internal_vmm_error ==
    /\ pc = "sink"
    /\ trace' = Append(trace, "sink")
    /\ pc' = AfterInternalVmmError
    /\ UNCHANGED << scause, ctx, lock_held, err, timer, hvip_vstip,
                    sie_stimer, console_tx, console_rx, htval, htinst, stval,
                    hgatp, stvec, vsstatus, vsip, vsie, vstvec, vsepc,
                    vscause, guest_id, irq_pending, claim_complete,
                    xlate_calls, decoded, plic_calls, at_entry,
                    host_plic_reads >>
    /\ UNCHANGED memvars

\* line 225: set_user_trap_entry.
set_user_trap_entry ==
    /\ pc = "switch"
    /\ stvec' = "TRAMPOLINE"
    /\ trace' = trace \o << "switch_to_guest", "stvec" >>
    /\ pc' = "switch_hgatp"
    /\ UNCHANGED << scause, ctx, lock_held, err, timer, hvip_vstip,
                    sie_stimer, console_tx, console_rx, htval, htinst, stval,
                    hgatp, vsstatus, vsip, vsie, vstvec, vsepc, vscause,
                    guest_id, irq_pending, claim_complete, xlate_calls,
                    decoded, plic_calls, at_entry,
                    host_plic_reads >>
    /\ UNCHANGED memvars

\* line 230: the guard of the hgatp reload.
HgatpDiffers(hw, want) == hw # want

\* Mutant: hgatp is written without the hfence.gvma.
HgatpReloadNoFence == << "hgatp_write" >>

\* lines 232-233: hgatp.write(), then hfence_gvma_all().
HgatpReload == << "hgatp_write", "hfence_gvma" >>

\* lines 230-235: the written value reads back, so the assert_eq passes.
SwitchHgatp ==
    /\ pc = "switch_hgatp"
    /\ IF HgatpDiffers(hgatp, ctx.hgatp)
       THEN /\ hgatp' = ctx.hgatp
            /\ trace' = trace \o HgatpReload
       ELSE UNCHANGED << hgatp, trace >>
    /\ pc' = "switch_restore"
    /\ UNCHANGED << scause, ctx, lock_held, err, timer, hvip_vstip,
                    sie_stimer, console_tx, console_rx, htval, htinst, stval,
                    stvec, vsstatus, vsip, vsie, vstvec, vsepc, vscause,
                    guest_id, irq_pending, claim_complete, xlate_calls,
                    decoded, plic_calls, at_entry,
                    host_plic_reads >>
    /\ UNCHANGED memvars

\* lines 243-249: fence.i, then jr __restore with a0 = TRAP_CONTEXT.
RestoreAsm == << "fence_i", "jump" >>

SwitchRestore ==
    /\ pc = "switch_restore"
    /\ trace' = trace \o RestoreAsm
    /\ pc' = "guest"
    /\ UNCHANGED << scause, ctx, lock_held, err, timer, hvip_vstip,
                    sie_stimer, console_tx, console_rx, htval, htinst, stval,
                    hgatp, stvec, vsstatus, vsip, vsie, vstvec, vsepc,
                    vscause, guest_id, irq_pending, claim_complete,
                    xlate_calls, decoded, plic_calls, at_entry,
                    host_plic_reads >>
    /\ UNCHANGED memvars

----------------------------------------------------------------------------

Next ==
    \/ GuestTrap
    \/ AcquireLock
    \/ FatalTrap
    \/ VirtualSupervisorEnvCall
    \/ InstructionGuestPageFault
    \/ LoadStoreGuestPageFault
    \/ SupervisorExternal
    \/ DropLock
    \/ handle_internal_vmm_error
    \/ set_user_trap_entry
    \/ SwitchHgatp
    \/ SwitchRestore

Spec == Init /\ [][Next]_vars

----------------------------------------------------------------------------
(* Bounds of the memory-set specifications.                                *)

\* Pages of the address space a single MapArea is drawn from.
NumVpns == 3

\* Frames the frame allocator owns.
NumFrames == 3

----------------------------------------------------------------------------
(* Memory sets (src/src/mm/memory_set.rs).                                 *)
(*                                                                         *)
(* An address is the pair of its page number and its offset in the page,   *)
(* so that 0x8020_0000 and usize sums of such addresses stay exact.  A     *)
(* permission or a PTE flag set is the integer of its bits.                *)

PAGE_SIZE == 4096

Addr(page, off) == [page |-> page, off |-> off]

\* a + n bytes.
AddrAdd(a, n) ==
    LET t == a.off + n
    IN  Addr(a.page + (t \div PAGE_SIZE), t % PAGE_SIZE)

\* a - b in bytes.
AddrSub(a, b) == (a.page - b.page) * PAGE_SIZE + (a.off - b.off)

\* VirtAddr::floor / PhysAddr::floor and ::ceil: the page number of the page
\* holding the address, and of the first page boundary at or after it.
floor(a) == a.page
ceil(a) == IF a.off = 0 THEN a.page ELSE a.page + 1

\* Option<PhysAddr>::None.
NoAddr == Addr(-1, 0)

MapPermission_R == 2
MapPermission_W == 4
MapPermission_X == 8
MapPermission_U == 16

\* bits contains the flag b (b a power of two).
HasFlag(bits, b) == (bits \div b) % 2 = 1

\* bits | b.
WithFlag(bits, b) == IF HasFlag(bits, b) THEN bits ELSE bits + b

\* PTEFlags::from_bits(map_perm.bits).unwrap(): R, W, X, U have the same bit
\* in MapPermission and in PTEFlags.
pte_flags(map_perm) == map_perm

\* MapArea::new (510-540).
MapArea_new(start_va, end_va, start_pa, end_pa, map_type, map_perm) ==
    [vpn_range |-> [start |-> floor(start_va), end |-> ceil(end_va)],
     ppn_range |-> IF start_pa # NoAddr /\ end_pa # NoAddr
                   THEN [some |-> TRUE, start |-> floor(start_pa),
                         end |-> ceil(end_pa)]
                   ELSE [some |-> FALSE, start |-> 0, end |-> 0],
     data_frames |-> EmptyMap,
     map_type |-> map_type,
     map_perm |-> map_perm]

\* The PageTable interface: map writes the entry of vpn, unmap clears it,
\* translate finds the valid entry if there is one.
pt_map(pt, vpn, ppn, flags) ==
    [v \in DOMAIN pt \cup { vpn } |->
        IF v = vpn THEN [ppn |-> ppn, flags |-> flags] ELSE pt[v]]

pt_unmap(pt, vpn) == [v \in DOMAIN pt \ { vpn } |-> pt[v]]

NoPte == [ppn |-> -1, flags |-> 0]

translate(pt, vpn) == IF vpn \in DOMAIN pt THEN pt[vpn] ELSE NoPte

\* The frames frame_alloc can hand out: the ones not in use.
Frames == 16 .. 16 + NumFrames - 1

\* BTreeMap::insert and ::remove on data_frames.
Insert(m, k, val) == [v \in DOMAIN m \cup { k } |-> IF v = k THEN val ELSE m[v]]
Remove(m, k) == [v \in DOMAIN m \ { k } |-> m[v]]

\* The result of an operation on an area: how it ended, and the area, page
\* table and frame allocator it leaves.
Outcome(status, a, pt, fr) ==
    [status |-> status, area |-> a, pt |-> pt, frames |-> fr]

\* MapArea::map_one (541-556), as the set of its outcomes: one per frame
\* frame_alloc may return.  A Linear area takes the ppn it is given and the
\* unwrap of None panics; a Framed area allocates a frame (the unwrap panics
\* when none is left), and the frame data_frames held for vpn, if any, is
\* dropped when the new one replaces it.
map_one(a, pt, fr, vpn, ppn_) ==
    IF a.map_type = "Linear"
    THEN IF ppn_ = -1
         THEN { Outcome("panicked", a, pt, fr) }
         ELSE { Outcome("ok", a, pt_map(pt, vpn, ppn_, pte_flags(a.map_perm)),
                        fr) }
    ELSE IF Frames \ fr = {}
         THEN { Outcome("panicked", a, pt, fr) }
         ELSE { Outcome("ok",
                        [a EXCEPT !.data_frames = Insert(@, vpn, f)],
                        pt_map(pt, vpn, f, pte_flags(a.map_perm)),
                        (IF vpn \in DOMAIN a.data_frames
                         THEN fr \ { a.data_frames[vpn] } ELSE fr)
                            \cup { f })
                : f \in Frames \ fr }

\* MapArea::unmap_one (558-563).
unmap_one(a, pt, fr, vpn) ==
    IF a.map_type = "Framed"
    THEN Outcome("ok",
                 [a EXCEPT !.data_frames = Remove(@, vpn)],
                 pt_unmap(pt, vpn),
                 IF vpn \in DOMAIN a.data_frames
                 THEN fr \ { a.data_frames[vpn] } ELSE fr)
    ELSE Outcome("ok", a, pt_unmap(pt, vpn), fr)

\* Mutant: the ppn counter is not stepped with the vpn counter.
LinearRunWithoutPpnStep(a, pt, n) ==
    LET s == a.vpn_range.start
        run == s .. (s + n - 1)
    IN  [v \in DOMAIN pt \cup run |->
            IF v \in run
            THEN [ppn |-> a.ppn_range.start, flags |-> pte_flags(a.map_perm)]
            ELSE pt[v]]

\* The pages a Linear area maps in the loop of lines 572-581 when the loop
\* ends: for k < n, vpn_start + k gets the entry that
\* map_one(vpn_start + k, Some(ppn_start + k)) writes.
LinearRun(a, pt, n) ==
    LET s == a.vpn_range.start
        run == s .. (s + n - 1)
        written(v) ==
            LET o == CHOOSE o \in map_one(a, pt, {}, v,
                                          a.ppn_range.start + (v - s)) : TRUE
            IN  o.pt[v]
    IN  [v \in DOMAIN pt \cup run |-> IF v \in run THEN written(v) ELSE pt[v]]

\* map_one for vpn, vpn + 1, ... up to end (excluded), stopping at a panic.
RECURSIVE MapEach(_, _, _, _, _)
MapEach(a, pt, fr, vpn, end) ==
    IF vpn >= end
    THEN { Outcome("ok", a, pt, fr) }
    ELSE UNION { IF o.status = "ok"
                 THEN MapEach(o.area, o.pt, o.frames, vpn + 1, end)
                 ELSE { o }
                 : o \in map_one(a, pt, fr, vpn,
                                 IF a.ppn_range.some
                                 THEN a.ppn_range.start
                                          + (vpn - a.vpn_range.start)
                                 ELSE -1) }

\* MapArea::map (564-587), as the set of its outcomes.  With a ppn range the
\* lengths are asserted equal (a usize subtraction: with end < start it
\* overflows, which panics or wraps with the build), then the loop maps a
\* page BEFORE it tests for the end, and leaves only when both counters are
\* at their ends: with n >= 1 pages it maps exactly n; with an empty or an
\* inverted range it never meets the end ("looping": it maps the first page
\* and goes on upwards).  Without a ppn range it is a for loop over the vpns.
map(a, pt, fr) ==
    LET n_v == a.vpn_range.end - a.vpn_range.start
        n_p == a.ppn_range.end - a.ppn_range.start
        first == map_one(a, pt, fr, a.vpn_range.start, a.ppn_range.start)
    IN  IF a.ppn_range.some
        THEN IF n_p # n_v
             THEN { Outcome("panicked", a, pt, fr) }
             ELSE IF n_v <= 0
             THEN { Outcome(IF o.status = "ok" THEN "looping" ELSE o.status,
                            o.area, o.pt, o.frames) : o \in first }
                  \cup (IF n_v < 0 THEN { Outcome("panicked", a, pt, fr) }
                        ELSE {})
             ELSE IF a.map_type = "Linear"
             THEN { Outcome("ok", a, LinearRun(a, pt, n_v), fr) }
             ELSE MapEach(a, pt, fr, a.vpn_range.start, a.vpn_range.end)
        ELSE MapEach(a, pt, fr, a.vpn_range.start, a.vpn_range.end)

\* MapArea::unmap (589-593): unmap_one for every vpn of the range.
RECURSIVE unmap_from(_, _, _, _)
unmap_from(a, pt, fr, vpn) ==
    IF vpn >= a.vpn_range.end
    THEN Outcome("ok", a, pt, fr)
    ELSE LET o == unmap_one(a, pt, fr, vpn)
         IN  unmap_from(o.area, o.pt, o.frames, vpn + 1)

unmap(a, pt, fr) == unmap_from(a, pt, fr, a.vpn_range.start)

----------------------------------------------------------------------------
(* One MapArea and its page table (specification SpecArea): the area is    *)
(* built by MapArea::new from drawn addresses, then map, map_one,          *)
(* unmap_one and unmap are applied in any order.  mpc names the operation  *)
(* that has just returned ("new" after construction), or "panicked" /      *)
(* "looping" once one did not return.                                      *)

\* The hart is still booting: there is no guest and no trap yet.
TrapIdle ==
    /\ pc = "boot"
    /\ scause = "None"
    /\ ctx = [x |-> ZeroRegs, sepc |-> 0, hgatp |-> 0]
    /\ lock_held = FALSE
    /\ err = "None"
    /\ timer = 0
    /\ hvip_vstip = FALSE
    /\ sie_stimer = FALSE
    /\ console_tx = << >>
    /\ console_rx = -1
    /\ htval = 0 /\ htinst = 0 /\ stval = 0
    /\ hgatp = 0
    /\ stvec = "__alltraps_k"
    /\ vsstatus = [spp |-> FALSE, sie |-> FALSE]
    /\ vsip = {} /\ vsie = {}
    /\ vstvec = 0 /\ vsepc = 0
    /\ vscause = [interrupt |-> FALSE, code |-> 0]
    /\ guest_id = 0
    /\ irq_pending = FALSE
    /\ claim_complete = [c \in Contexts |-> 0]
    /\ trace = << >>
    /\ xlate_calls = << >>
    /\ decoded = NoDecode
    /\ plic_calls = << >>
    /\ host_plic_reads = << >>
    /\ at_entry = [ctx |-> ctx, timer |-> 0, hvip_vstip |-> FALSE,
                   sie_stimer |-> FALSE, vsepc |-> 0,
                   vscause |-> [interrupt |-> FALSE, code |-> 0],
                   irq_pending |-> FALSE,
                   claim_complete |-> [c \in Contexts |-> 0], hgatp |-> 0]

\* The virtual pages the operations are tried on: the pages of the area's
\* addresses and one more.
AreaVpns == 0 .. NumVpns

\* Addresses of the area: page-aligned or in the middle of a page.
AreaVas == { Addr(p, o) : p \in 0 .. NumVpns - 1, o \in { 0, 2048 } }

\* Physical ranges of a Linear area: from page 8, as long as the virtual
\* range or not.
AreaPaStart == Addr(8, 0)
AreaPaEnds == { Addr(8 + k, 0) : k \in 0 .. NumVpns } \cup { Addr(8, 2048) }

AreaPerms == { MapPermission_R + MapPermission_W,
               MapPermission_R + MapPermission_X + MapPermission_U }

\* The ppn_ arguments tried with map_one: None, or a page of its own.
PpnArgs == { -1, 12 }

InitArea ==
    /\ TrapIdle
    /\ mpc = "new"
    /\ input = [kind |-> "area"]
    /\ \E sva \in AreaVas, eva \in AreaVas, perm \in AreaPerms :
         /\ AddrSub(eva, sva) >= 0
         /\ \/ \E epa \in AreaPaEnds :
                 areas = << MapArea_new(sva, eva, AreaPaStart, epa,
                                        "Linear", perm) >>
            \/ areas = << MapArea_new(sva, eva, NoAddr, NoAddr,
                                      "Framed", perm) >>
    /\ page_table = EmptyMap
    /\ guest_mem = << >>
    /\ loader = [i |-> 0]
    /\ frames_in_use = {}

AreaLive == input.kind = "area" /\ mpc \notin { "panicked", "looping" }

\* The area, page table and allocator after an operation ended as o did.
AreaAfter(o, op) ==
    /\ areas' = << o.area >>
    /\ page_table' = o.pt
    /\ frames_in_use' = o.frames
    /\ mpc' = IF o.status = "ok" THEN op ELSE o.status
    /\ UNCHANGED << input, guest_mem, loader >>
    /\ UNCHANGED trapvars

MapArea_map ==
    /\ AreaLive
    /\ \E o \in map(areas[1], page_table, frames_in_use) : AreaAfter(o, "map")

MapArea_map_one ==
    /\ AreaLive
    /\ \E vpn \in AreaVpns, ppn_ \in PpnArgs :
         \E o \in map_one(areas[1], page_table, frames_in_use, vpn, ppn_) :
           AreaAfter(o, "map_one")

MapArea_unmap_one ==
    /\ AreaLive
    /\ \E vpn \in AreaVpns :
         AreaAfter(unmap_one(areas[1], page_table, frames_in_use, vpn),
                   "unmap_one")

MapArea_unmap ==
    /\ AreaLive
    /\ AreaAfter(unmap(areas[1], page_table, frames_in_use), "unmap")

NextArea ==
    \/ MapArea_map
    \/ MapArea_map_one
    \/ MapArea_unmap_one
    \/ MapArea_unmap

SpecArea == InitArea /\ [][NextArea]_vars

----------------------------------------------------------------------------
(* GuestMemorySet::new_guest (243-387), specification SpecGuest.  The      *)
(* input is the list of program headers of the ELF image, gpm_size and the *)
(* MachineMeta.  The byte at offset k of the image is the token k, so a    *)
(* copy is known by its source offset; guest_mem lists the copies made.    *)

\* Layout constants: the guest is linked at GUEST_START_VA (0x8020_0000) and
\* backed by host memory from GUEST_START_PA (0x8800_0000).
GUEST_START_VA == Addr(524800, 0)
GUEST_START_PA == Addr(557056, 0)

\* usize -> VirtAddr / PhysAddr.
into(n) == Addr(n \div PAGE_SIZE, n % PAGE_SIZE)

\* ELF segment flags: PF_X = 1, PF_W = 2, PF_R = 4.
is_execute(flags) == HasFlag(flags, 1)
is_write(flags) == HasFlag(flags, 2)
is_read(flags) == HasFlag(flags, 4)

ProgramHeader(type, va, mem_size, file_size, flags, offset) ==
    [type |-> type, virtual_addr |-> va, mem_size |-> mem_size,
     file_size |-> file_size, flags |-> flags, offset |-> offset]

\* lines 262-272: map_perm of a segment.
SegmentPerm(flags) ==
    LET r == IF is_read(flags)
             THEN WithFlag(MapPermission_U, MapPermission_R)
             ELSE MapPermission_U
        w == IF is_write(flags) THEN WithFlag(r, MapPermission_W) ELSE r
    IN  IF is_execute(flags) THEN WithFlag(w, MapPermission_X) ELSE w

\* line 276: page_align_size.
page_align_size(mem_size) ==
    ((mem_size + PAGE_SIZE - 1) \div PAGE_SIZE) * PAGE_SIZE

\* MemorySet::push(area, None): the area is mapped in the page table, then
\* recorded; as the set of its outcomes.
push(ms_areas, pt, fr, a) ==
    { [status |-> o.status,
       areas |-> IF o.status = "ok" THEN Append(ms_areas, o.area)
                 ELSE ms_areas,
       pt |-> o.pt,
       frames |-> o.frames] : o \in map(a, pt, fr) }

\* The byte of host physical memory at pa: the image byte the last copy
\* covering pa put there (its offset in the image), or -1.
RECURSIVE ByteAt(_, _, _)
ByteAt(copies, k, pa) ==
    IF k = 0 THEN -1
    ELSE LET c == copies[k]
             d == AddrSub(pa, c.dst)
         IN  IF 0 <= d /\ d < c.len THEN c.src + d
             ELSE ByteAt(copies, k - 1, pa)

\* The areas of lines 313-384, in the order they are pushed: the test
\* finisher, each virtio device, the UART, the CLINT, and the PLIC, whose
\* area ends where it starts (lines 375-378).
MmioRegions(m) ==
    m.test_finisher_address \o m.virtio \o m.uart \o m.clint
        \o [k \in 1 .. Len(m.plic) |->
               [base_address |-> m.plic[k].base_address, size |-> 0]]

MmioArea(r) ==
    MapArea_new(into(r.base_address), into(r.base_address + r.size),
                into(r.base_address), into(r.base_address + r.size),
                "Linear",
                MapPermission_R + MapPermission_W + MapPermission_U)

\* map_trampoline: the trampoline page, at the top of the address space,
\* is mapped R+X to the page of strampoline; no area is recorded for it.
TRAMPOLINE_VPN == 134217727
STRAMPOLINE_PPN == 524801

map_trampoline(pt) ==
    pt_map(pt, TRAMPOLINE_VPN, STRAMPOLINE_PPN,
           MapPermission_R + MapPermission_X)

\* MachineMeta: each device is absent (<< >>) or present; virtio is a list.
Region(base, size) == [base_address |-> base, size |-> size]

Machine(test, virtio, uart, clint, plic) ==
    [test_finisher_address |-> test, virtio |-> virtio, uart |-> uart,
     clint |-> clint, plic |-> plic]

\* The machines tried: one without devices, the QEMU virt machine without
\* its PLIC, and the QEMU virt machine (test finisher 0x10_0000, two virtio
\* devices from 0x1000_1000, UART 0x1000_0000, CLINT 0x200_0000, PLIC
\* 0xC00_0000).
Machines ==
    { Machine(<< >>, << >>, << >>, << >>, << >>),
      Machine(<< Region(1048576, 4096) >>, << Region(268439552, 4096) >>,
              << Region(268435456, 256) >>, << Region(33554432, 65536) >>,
              << >>),
      Machine(<< Region(1048576, 4096) >>,
              << Region(268439552, 4096), Region(268443648, 4096) >>,
              << Region(268435456, 256) >>, << Region(33554432, 65536) >>,
              << Region(PLIC_BASE, PLIC_SIZE) >>) }

\* The program headers tried: a page-aligned code segment at
\* GUEST_START_VA, a data segment of one page and a half after it, two
\* segments that do not start on a page boundary (one inside the first
\* page, one crossing from the fourth page into the fifth), and a header
\* that is not PT_LOAD.
Headers ==
    << ProgramHeader("Load", GUEST_START_VA, 4096, 4096, 5, 4096),
       ProgramHeader("Load", AddrAdd(GUEST_START_VA, 4096), 6144, 4100, 6,
                     12288),
       ProgramHeader("Load", AddrAdd(GUEST_START_VA, 2048), 2048, 2048, 6,
                     20480),
       ProgramHeader("Load", AddrAdd(GUEST_START_VA, 14336), 4096, 16, 4,
                     24576),
       ProgramHeader("Note", Addr(0, 0), 0, 64, 4, 512) >>

\* An ELF image has up to two of them, in any order.
Elfs ==
    { << >> }
    \cup { << Headers[i] >> : i \in 1 .. Len(Headers) }
    \cup UNION { { << Headers[i], Headers[j] >> :
                        j \in (1 .. Len(Headers)) \ { i } }
                    : i \in 1 .. Len(Headers) }

\* Scenario S5: [0x80200000, +0x3000, RX] and [0x80210000, +0x1000, RW],
\* the two segments of the guest that the scenario loads into 128 MiB.
S5Elf ==
    << ProgramHeader("Load", Addr(524800, 0), 12288, 12288, 5, 4096),
       ProgramHeader("Load", Addr(524816, 0), 4096, 4096, 6, 16384) >>

GuestInput(elf, gpm_size, machine) ==
    [kind |-> "guest", elf |-> elf, gpm_size |-> gpm_size,
     machine |-> machine]

\* The small guests have 8 pages. The ELF of S5 is loaded into 32 pages on
\* every machine, and into the 128 MiB of the scenario on the machines
\* without a PLIC: the size only sets the length of the run of the tail
\* area.  One ELF, of three pages, is also loaded into a guest of two.
GuestInputs ==
    { GuestInput(e, 32768, m) : e \in Elfs, m \in Machines }
    \cup { GuestInput(<< Headers[1], Headers[2] >>, 8192, m) : m \in Machines }
    \cup { GuestInput(S5Elf, 131072, m) : m \in Machines }
    \cup { GuestInput(S5Elf, 134217728, m) :
               m \in { k \in Machines : k.plic = << >> } }

InitGuest ==
    /\ TrapIdle
    /\ input \in GuestInputs
    /\ mpc = IF input.elf = << >> THEN "tail" ELSE "load"
    /\ areas = << >>
    /\ page_table = EmptyMap
    /\ guest_mem = << >>
    /\ loader = [i |-> 1, paddr |-> GUEST_START_PA,
                 last_paddr |-> GUEST_START_PA,
                 map_area |-> MapArea_new(NoAddr, NoAddr, NoAddr, NoAddr,
                                          "Linear", 0)]
    /\ frames_in_use = {}

\* The memory set after gpm.push(a, None) ended as o did, the builder going
\* on at position next if it returned.
Pushed(o, next) ==
    /\ areas' = o.areas
    /\ page_table' = o.pt
    /\ frames_in_use' = o.frames
    /\ mpc' = IF o.status = "ok" THEN next ELSE o.status

\* lines 256-293: one turn of the loop over the program headers.
LoadProgramHeader ==
    /\ input.kind = "guest" /\ mpc = "load"
    /\ LET ph == input.elf[loader.i]
           next == IF loader.i = Len(input.elf) THEN "tail" ELSE "load"
       IN  IF ph.type # "Load"
           THEN /\ loader' = [loader EXCEPT !.i = @ + 1]
                /\ mpc' = next
                /\ UNCHANGED << areas, page_table, guest_mem,
                                frames_in_use >>
           ELSE LET start_va == ph.virtual_addr
                    end_va == AddrAdd(ph.virtual_addr, ph.mem_size)
                    paddr == AddrAdd(loader.paddr,
                                     page_align_size(ph.mem_size))
                    map_area == MapArea_new(start_va, end_va,
                                            loader.last_paddr, paddr,
                                            "Linear", SegmentPerm(ph.flags))
                IN  /\ guest_mem' = Append(guest_mem,
                                           [dst |-> loader.paddr,
                                            src |-> ph.offset,
                                            len |-> ph.file_size])
                    /\ loader' = [i |-> loader.i + 1, paddr |-> paddr,
                                  last_paddr |-> paddr,
                                  map_area |-> map_area]
                    /\ \E o \in push(areas, page_table, frames_in_use,
                                      map_area) :
                         Pushed(o, next)
    /\ UNCHANGED input
    /\ UNCHANGED trapvars

\* line 305: the permission of the tail area.
TailPerm ==
    MapPermission_R + MapPermission_W + MapPermission_U + MapPermission_X

\* lines 294-308: the rest of the guest's memory.
PushTail ==
    /\ input.kind = "guest" /\ mpc = "tail"
    /\ LET offset == AddrSub(loader.paddr, GUEST_START_PA)
           guest_end_pa == AddrAdd(GUEST_START_PA, input.gpm_size)
           guest_end_va == AddrAdd(GUEST_START_VA, input.gpm_size)
       IN  \E o \in push(areas, page_table, frames_in_use,
                         MapArea_new(AddrAdd(GUEST_START_VA, offset),
                                     guest_end_va, loader.paddr,
                                     guest_end_pa, "Linear", TailPerm)) :
             Pushed(o, "trampoline")
    /\ UNCHANGED << input, guest_mem, loader >>
    /\ UNCHANGED trapvars

\* line 311.
MapTrampoline ==
    /\ input.kind = "guest" /\ mpc = "trampoline"
    /\ page_table' = map_trampoline(page_table)
    /\ mpc' = IF MmioRegions(input.machine) = << >> THEN "done" ELSE "mmio"
    /\ loader' = [loader EXCEPT !.i = 1]
    /\ UNCHANGED << input, areas, guest_mem, frames_in_use >>
    /\ UNCHANGED trapvars

\* lines 313-384: the next MMIO area; new_guest returns after the last.
PushMmio ==
    /\ input.kind = "guest" /\ mpc = "mmio"
    /\ LET regions == MmioRegions(input.machine)
       IN  \E o \in push(areas, page_table, frames_in_use,
                         MmioArea(regions[loader.i])) :
             Pushed(o, IF loader.i = Len(regions) THEN "done" ELSE "mmio")
    /\ loader' = [loader EXCEPT !.i = @ + 1]
    /\ UNCHANGED << input, guest_mem >>
    /\ UNCHANGED trapvars

NextGuest ==
    \/ LoadProgramHeader
    \/ PushTail
    \/ MapTrampoline
    \/ PushMmio

SpecGuest == InitGuest /\ [][NextGuest]_vars

----------------------------------------------------------------------------
(* HostMemorySet::new_host_vmm (59-181), specification SpecHost.  The      *)
(* input is the layout of the hypervisor image (the linker symbols, which  *)
(* the linker script puts on page boundaries, one section after the other) *)
(* and the MachineMeta.                                                    *)

\* TRAMPOLINE is the last page of the address space, TRAP_CONTEXT the page
\* below it; the host's memory ends at MEMORY_END (0x8020_C000 here).
TRAMPOLINE == Addr(TRAMPOLINE_VPN, 0)
TRAP_CONTEXT == Addr(TRAMPOLINE_VPN - 1, 0)
MEMORY_END == Addr(524812, 0)

\* The image starts at 0x8020_0000; each section has one or two pages.
Layouts ==
    { [stext |-> Addr(524800, 0),
       etext |-> Addr(524800 + t, 0),
       srodata |-> Addr(524800 + t, 0),
       erodata |-> Addr(524800 + t + r, 0),
       sdata |-> Addr(524800 + t + r, 0),
       edata |-> Addr(524800 + t + r + d, 0),
       sbss_with_stack |-> Addr(524800 + t + r + d, 0),
       ebss |-> Addr(524800 + t + r + d + b, 0),
       ekernel |-> Addr(524800 + t + r + d + b, 0)]
      : t \in 1 .. 2, r \in 1 .. 2, d \in 1 .. 2, b \in 1 .. 2 }

\* An identity-mapped Linear area.
Identity(start, end, perm) ==
    MapArea_new(start, end, start, end, "Linear", perm)

\* Mutant: .rodata is mapped like .data.
SectionAreasRodataWritable(l) ==
    << Identity(l.stext, l.etext, MapPermission_R + MapPermission_X),
       Identity(l.srodata, l.erodata, MapPermission_R + MapPermission_W),
       Identity(l.sdata, l.edata, MapPermission_R + MapPermission_W),
       Identity(l.sbss_with_stack, l.ebss,
                MapPermission_R + MapPermission_W),
       Identity(l.ekernel, MEMORY_END, MapPermission_R + MapPermission_W) >>

\* lines 79-137: .text, .rodata, .data, .bss and the rest of the memory.
SectionAreas(l) ==
    << Identity(l.stext, l.etext, MapPermission_R + MapPermission_X),
       Identity(l.srodata, l.erodata, MapPermission_R),
       Identity(l.sdata, l.edata, MapPermission_R + MapPermission_W),
       Identity(l.sbss_with_stack, l.ebss,
                MapPermission_R + MapPermission_W),
       Identity(l.ekernel, MEMORY_END, MapPermission_R + MapPermission_W) >>

\* lines 139-179: the test finisher, each virtio device, the PLIC.
HostMmioAreas(m) ==
    LET regions == m.test_finisher_address \o m.virtio \o m.plic
    IN  [k \in 1 .. Len(regions) |->
            Identity(into(regions[k].base_address),
                     into(regions[k].base_address + regions[k].size),
                     MapPermission_R + MapPermission_W)]

\* The areas new_host_vmm pushes, in order: the trap context (66-76), the
\* sections, the MMIO areas.
HostAreas(l, m) ==
    << MapArea_new(TRAP_CONTEXT, TRAMPOLINE, NoAddr, NoAddr, "Framed",
                   MapPermission_R + MapPermission_W) >>
        \o SectionAreas(l) \o HostMmioAreas(m)

InitHost ==
    /\ TrapIdle
    /\ \E l \in Layouts, m \in Machines :
         input = [kind |-> "host", layout |-> l, machine |-> m]
    /\ mpc = "trampoline"
    /\ areas = << >>
    /\ page_table = EmptyMap
    /\ guest_mem = << >>
    /\ loader = [i |-> 1]
    /\ frames_in_use = {}

\* line 62.
HostMapTrampoline ==
    /\ input.kind = "host" /\ mpc = "trampoline"
    /\ page_table' = map_trampoline(page_table)
    /\ mpc' = "push"
    /\ UNCHANGED << input, areas, guest_mem, loader, frames_in_use >>
    /\ UNCHANGED trapvars

\* lines 66-179: the next push; new_host_vmm returns after the last.
HostPush ==
    /\ input.kind = "host" /\ mpc = "push"
    /\ LET todo == HostAreas(input.layout, input.machine)
       IN  \E o \in push(areas, page_table, frames_in_use, todo[loader.i]) :
             Pushed(o, IF loader.i = Len(todo) THEN "done" ELSE "push")
    /\ loader' = [i |-> loader.i + 1]
    /\ UNCHANGED << input, guest_mem >>
    /\ UNCHANGED trapvars

\* remap_test (637-663): the three asserts pass.
remap_test ==
    LET l == input.layout
        mid(a, b) == Addr((a.page + b.page) \div 2,
                          IF (a.page + b.page) % 2 = 1 THEN 2048 ELSE 0)
        writable(pte) == HasFlag(pte.flags, MapPermission_W)
        executable(pte) == HasFlag(pte.flags, MapPermission_X)
    IN  /\ ~writable(translate(page_table, floor(mid(l.stext, l.etext))))
        /\ ~writable(translate(page_table, floor(mid(l.srodata, l.erodata))))
        /\ ~executable(translate(page_table, floor(mid(l.sdata, l.edata))))

NextHost ==
    \/ HostMapTrampoline
    \/ HostPush

SpecHost == InitHost /\ [][NextHost]_vars

----------------------------------------------------------------------------
(* Vocabulary of the properties.                                           *)

SwitchPcs == { "switch", "switch_hgatp", "switch_restore" }

\* A trap has been taken (the first world switch, at boot, follows none).
InTrap == scause # "None"

\* The guest runs again after the trap was handled.
Resumed == InTrap /\ pc = "guest"

\* The sub-handler of the trap has returned and the lock was dropped.
Dispatched == InTrap /\ Has(trace, "unlock")

\* The trap is an ecall with ext_id (a7) = ext.
EcallOf(ext) ==
    scause = "VirtualSupervisorEnvCall" /\ at_entry.ctx.x[A7] = ext

EntryFid == at_entry.ctx.x[A6]

\* The part of the trace that switch_to_guest wrote.
SwitchSegment ==
    IF Has(trace, "switch_to_guest")
    THEN SubSeq(trace, First(trace, "switch_to_guest"), Len(trace))
    ELSE << >>

IsPrefix(p, q) == Len(p) <= Len(q) /\ SubSeq(q, 1, Len(p)) = p

----------------------------------------------------------------------------
(* C1..C10: the trap dispatcher and the world switch.                      *)

\* C1: after a VS-mode ecall that trap_handler handles successfully (legacy
\* putchar a7=1, getchar a7=2, set-timer a7=0), the guest is resumed with
\* a0 = the SBI error code 0, a1 = the SBI value (0 for putchar and
\* set-timer, the byte read for getchar) and sepc = sepc at entry + 4.
C1_SbiReturnConvention ==
    (Resumed /\ \E ext \in { SBI_CONSOLE_PUTCHAR, SBI_CONSOLE_GETCHAR,
                             SBI_SET_TIMER } : EcallOf(ext))
    => /\ ctx.x[A0] = SBI_SUCCESS
       /\ ctx.x[A1] = (IF EcallOf(SBI_CONSOLE_GETCHAR) THEN console_rx ELSE 0)
       /\ ctx.sepc = at_entry.ctx.sepc + 4

\* C2: once a SET_TIMER ecall with argument stime (the TIME extension with
\* fid 0, or the legacy call a7=0) has been handled by trap_handler, the
\* machine timer is programmed to stime, hvip.vstip = 0 and sie.stimer = 1,
\* whatever they were before.
C2_SetTimerState ==
    (Dispatched /\ (EcallOf(SBI_SET_TIMER)
                    \/ (EcallOf(SBI_EXTID_TIME) /\ EntryFid = SBI_SET_TIMER_FID)))
    => /\ timer = at_entry.ctx.x[A0]
       /\ hvip_vstip = FALSE
       /\ sie_stimer = TRUE

\* C3: a TIME-extension ecall with fid # 0 is answered, not treated as an
\* error: no error is recorded, the error sink is not reached, the guest is
\* resumed with a0 = -2, a1 = 0 and sepc + 4, and the machine timer,
\* hvip.vstip and sie.stimer keep their values.
C3_TimeUnsupportedFidAnswered ==
    (Dispatched /\ EcallOf(SBI_EXTID_TIME) /\ EntryFid # SBI_SET_TIMER_FID)
    => /\ err = "None"
       /\ pc \in SwitchPcs \cup { "guest" }
       /\ pc = "guest" => /\ ctx.x[A0] = SBI_ERR_NOT_SUPPORTED
                          /\ ctx.x[A1] = 0
                          /\ ctx.sepc = at_entry.ctx.sepc + 4
       /\ timer = at_entry.timer
       /\ hvip_vstip = at_entry.hvip_vstip
       /\ sie_stimer = at_entry.sie_stimer

\* C4: a Base-extension ecall (a7 = 0x10) with fid in 0..6 is handled
\* without error: it never reaches the internal-VMM-error sink, the guest is
\* resumed with sepc + 4, and for fids 1, 2, 4, 5, 6 a0 is 0.
C4_BaseExtensionHandled ==
    (Dispatched /\ EcallOf(SBI_EXTID_BASE) /\ EntryFid \in 0..6)
    => /\ err = "None"
       /\ pc \in SwitchPcs \cup { "guest" }
       /\ pc = "guest" => /\ ctx.sepc = at_entry.ctx.sepc + 4
                          /\ (EntryFid \in { 1, 2, 4, 5, 6 }
                              => ctx.x[A0] = SBI_SUCCESS)

\* C5: an ecall whose ext_id is none of 0x10, 0x54494D45, 0, 1, 2 is fatal:
\* the trap ends in the halted hypervisor, through the error sink, and the
\* guest is never resumed after it (switch_to_guest is not entered).
KnownExtIds == { SBI_EXTID_BASE, SBI_EXTID_TIME, SBI_SET_TIMER,
                 SBI_CONSOLE_PUTCHAR, SBI_CONSOLE_GETCHAR }

UnknownEcall ==
    scause = "VirtualSupervisorEnvCall" /\ at_entry.ctx.x[A7] \notin KnownExtIds

C5_UnknownExtensionFatal ==
    UnknownEcall
    => /\ pc \in { "trap_entry", "dispatch", "drop", "sink", "panicked" }
       /\ ~Has(trace, "switch_to_guest")
       /\ Dispatched => pc \in { "sink", "panicked" }

\* C5 witness: the unknown ecall went through the sink and the hart stopped.
C5_Witness == UnknownEcall /\ pc = "panicked" /\ Has(trace, "sink")

\* C6: in every execution of trap_handler that reaches switch_to_guest the
\* HostVmm lock was taken first thing, once, and released, once, before
\* switch_to_guest began; the lock is never held while the guest runs.
C6_LockReleasedBeforeSwitch ==
    /\ pc \in SwitchPcs \cup { "guest" } => ~lock_held
    /\ (InTrap /\ Has(trace, "switch_to_guest"))
       => /\ trace[1] = "lock"
          /\ Count(trace, "lock") = 1
          /\ Count(trace, "unlock") = 1
          /\ First(trace, "unlock") < First(trace, "switch_to_guest")
          /\ ~Has(trace, "lock_wait")

\* C6 witness: the guest runs again after a trap whose dispatch took and
\* released the lock.
C6_Witness == Resumed /\ Has(trace, "lock") /\ Has(trace, "unlock")

\* C7: when a sub-handler returns an error kind, the dispatcher first
\* releases the lock and then passes the error to the sink, which halts;
\* when it returns without error the dispatch ends in switch_to_guest,
\* exactly once; no trap both reports an error and resumes the guest.
C7_ErrorRouting ==
    /\ (Dispatched /\ err # "None")
       => /\ pc \in { "sink", "panicked" }
          /\ ~lock_held
          /\ ~Has(trace, "switch_to_guest")
          /\ pc = "panicked" => Has(trace, "sink")
    /\ Has(trace, "sink")
       => /\ err # "None"
          /\ pc = "panicked"
          /\ 0 < First(trace, "unlock")
          /\ First(trace, "unlock") < First(trace, "sink")
    /\ (Dispatched /\ err = "None")
       => /\ pc \in SwitchPcs \cup { "guest" }
          /\ ~Has(trace, "sink")
          /\ Count(trace, "switch_to_guest") <= 1
          /\ pc # "switch" => Count(trace, "switch_to_guest") = 1
    /\ ~(Has(trace, "sink") /\ Has(trace, "switch_to_guest"))

\* C7 witness: a sub-handler's error reached the sink after the unlock.
C7_Witness ==
    /\ pc = "panicked" /\ err \in Errors
    /\ Has(trace, "sink") /\ ~lock_held

\* C8: on an instruction guest-page fault the dispatcher always reaches the
\* panic: it translates ctx.sepc, prints the diagnostic and panics; it never
\* blocks before the panic and never resumes the guest.
C8_InstructionFaultPanics ==
    scause = "InstructionGuestPageFault"
    => /\ pc \in { "trap_entry", "dispatch", "panicked" }
       /\ pc = "panicked" => /\ xlate_calls = << ctx.sepc >>
                             /\ Has(trace, "herror")

\* C9: in every world switch stvec is set first; then, only if the hardware
\* hgatp differs from ctx.hgatp, hgatp is written and hfence.gvma follows at
\* once; then fence.i; then the jump.  When the two hgatp values are equal
\* neither the write nor the fence happens.
C9_WorldSwitchOrder ==
    LET full == IF at_entry.hgatp # ctx.hgatp
                THEN << "switch_to_guest", "stvec", "hgatp_write",
                        "hfence_gvma", "fence_i", "jump" >>
                ELSE << "switch_to_guest", "stvec", "fence_i", "jump" >>
    IN  /\ IsPrefix(SwitchSegment, full)
        /\ pc = "guest" => SwitchSegment = full
        /\ pc = "switch_hgatp" => SwitchSegment = << "switch_to_guest", "stvec" >>
        /\ pc \in { "switch_hgatp", "switch_restore", "guest" }
           => stvec = "TRAMPOLINE"
        /\ pc \in { "switch_restore", "guest" } => hgatp = ctx.hgatp

\* C9 witness: a world switch that reloaded hgatp has jumped to the guest.
C9_Witness ==
    pc = "guest" /\ Has(trace, "hgatp_write") /\ Has(trace, "jump")

\* C10 as stated: on a load/store guest-page fault in the PLIC window with
\* htinst = 0, when the translation of ctx.sepc succeeds and the instruction
\* decodes, the emulator is invoked exactly once with (ctx, stval, inst),
\* afterwards ctx.sepc = sepc at entry + len with len in {2, 4}, and the
\* guest is then resumed.
PlicFetchDecoded ==
    /\ scause \in { "LoadGuestPageFault", "StoreGuestPageFault" }
    /\ is_plic_access(htval * 4)
    /\ htinst = 0
    /\ Has(trace, "guest_page_fault_handler")
    /\ decoded.inst # "None"

EmulatorCalledOnce ==
    /\ xlate_calls = << at_entry.ctx.sepc >>
    /\ Len(plic_calls) = 1
    /\ plic_calls[1] = [ctx |-> at_entry.ctx, stval |-> stval,
                        inst |-> decoded.inst]

C10_PlicAccessAdvances ==
    PlicFetchDecoded
    => /\ EmulatorCalledOnce
       /\ decoded.len \in { 2, 4 }
       /\ ctx.sepc = at_entry.ctx.sepc + decoded.len
       /\ pc \in { "drop" } \cup SwitchPcs \cup { "guest" }
       /\ err = "None"

\* C10 amended: the same, provided the PLIC access emulator returns without
\* error; when it returns an error sepc is not advanced and the error goes
\* to the sink.
C10_PlicAccessAdvancesWhenEmulated ==
    /\ (PlicFetchDecoded /\ err = "None")
       => /\ EmulatorCalledOnce
          /\ decoded.len \in { 2, 4 }
          /\ ctx.sepc = at_entry.ctx.sepc + decoded.len
          /\ pc \in { "drop" } \cup SwitchPcs \cup { "guest" }
    /\ (PlicFetchDecoded /\ err # "None")
       => /\ EmulatorCalledOnce
          /\ ctx.sepc = at_entry.ctx.sepc
          /\ pc \in { "drop", "sink", "panicked" }

\* C10 witness: a compressed PLIC access was emulated and the guest resumed
\* two bytes further.
C10_Witness ==
    /\ Resumed /\ PlicFetchDecoded /\ decoded.len = 2
    /\ ctx.sepc = at_entry.ctx.sepc + 2

----------------------------------------------------------------------------
(* C11..C20: interrupts, the page-fault frame, and the memory sets.        *)

\* The external-interrupt arm of trap_handler has run for this trap.
IrqHandled == scause = "SupervisorExternal" /\ Has(trace, "handle_irq")

\* C11: on a SupervisorExternal trap with current guest id g, handle_irq
\* reads the host PLIC claim/complete register at
\* base_addr + 0x20_0004 + 0x1000 * (2g+1) exactly once, stores the value
\* read in claim_complete[2g+1], sets irq_pending, and leaves
\* claim_complete[c] as it was at trap entry for every other context c;
\* before the arm runs nothing of the host PLIC is read.
C11_HandleIrqClaims ==
    /\ IrqHandled
       => /\ Len(host_plic_reads) = 1
          /\ host_plic_reads[1].addr =
                 PLIC_BASE + 2097156 + 4096 * (2 * guest_id + 1)
          /\ claim_complete[2 * guest_id + 1] = host_plic_reads[1].value
          /\ irq_pending = TRUE
          /\ \A c \in Contexts \ { 2 * guest_id + 1 } :
                 claim_complete[c] = at_entry.claim_complete[c]
    /\ ~IrqHandled => host_plic_reads = << >>

\* C11 witness: IRQ 10 was claimed for guest 1 from the register of context
\* 3, and the latch of context 3, empty at trap entry, holds 10.
C11_Witness ==
    /\ IrqHandled /\ guest_id = 1
    /\ host_plic_reads = << [addr |-> PLIC_BASE + 2097156 + 4096 * 3,
                             value |-> 10] >>
    /\ claim_complete[3] = 10
    /\ at_entry.claim_complete[3] = 0

\* The delivery condition as the guest's VS-level CSRs state it.
GuestTakesInterrupt ==
    \/ vsstatus.spp /\ vsstatus.sie
    \/ ~vsstatus.spp /\ (vsip \cap vsie) # {}

\* C12: when irq_pending is set and either (vsstatus.spp = 1 and
\* vsstatus.sie = 1) or (vsstatus.spp = 0 and vsip & vsie # 0),
\* maybe_forward_interrupt leaves vsepc = the sepc of trap entry, vscause =
\* the scause of the trap (interrupt bit set, code 9) and ctx.sepc = vstvec,
\* and these still hold when the world switch has resumed the guest.
C12_ForwardToGuestVector ==
    (IrqHandled /\ irq_pending /\ GuestTakesInterrupt)
    => /\ vsepc = at_entry.ctx.sepc
       /\ vscause = [interrupt |-> TRUE, code |-> 9]
       /\ ctx.sepc = vstvec
       /\ Has(trace, "forward")
       /\ pc \in { "drop" } \cup SwitchPcs \cup { "guest" }

\* C12 witness: the guest was in VS-mode's user level (spp = 0) with the
\* external interrupt pending and enabled, and is resumed at its trap
\* vector with the interrupted pc in vsepc.
C12_Witness ==
    /\ Resumed /\ IrqHandled /\ ~vsstatus.spp /\ vsip = {9} /\ vsie = {9}
    /\ at_entry.ctx.sepc = 8194 /\ vsepc = 8194
    /\ ctx.sepc = 12288
    /\ vscause.interrupt /\ vscause.code = 9

\* A load/store guest-page fault whose handler has run.
GpfHandled ==
    /\ scause \in { "LoadGuestPageFault", "StoreGuestPageFault" }
    /\ Has(trace, "guest_page_fault_handler")

\* C19: on a load/store guest-page fault in the PLIC window whose htinst is
\* non-zero and neither 0x3020 nor 0x3000, the handler takes htinst as the
\* trapping instruction: the PLIC access emulator is invoked once, sepc is
\* advanced by the width of that instruction, and the guest is resumed (the
\* hypervisor is on its way back to the guest, without an error).
C19_ValidHtinstEmulated ==
    (GpfHandled /\ is_plic_access(htval * 4)
        /\ htinst # 0 /\ htinst \notin { 12320, 12288 })
    => /\ Len(plic_calls) = 1
       /\ ctx.sepc \in { at_entry.ctx.sepc + 2, at_entry.ctx.sepc + 4 }
       /\ err = "None"
       /\ pc \in { "drop" } \cup SwitchPcs \cup { "guest" }

\* C20: on a load/store guest-page fault whose guest physical address
\* (htval << 2) is outside the PLIC window, guest_page_fault_handler returns
\* DeviceNotFound whatever htinst is, without translating or reading guest
\* memory, without invoking the PLIC emulator, and with the TrapContext and
\* the HostVmm state (guest_id, irq_pending, claim_complete) as they were at
\* trap entry.
C20_OutsidePlicDeviceNotFound ==
    (GpfHandled /\ ~(PLIC_BASE <= htval * 4
                      /\ htval * 4 < PLIC_BASE + PLIC_SIZE))
    => /\ err = "DeviceNotFound"
       /\ xlate_calls = << >>
       /\ decoded = NoDecode
       /\ plic_calls = << >>
       /\ host_plic_reads = << >>
       /\ ctx = at_entry.ctx
       /\ irq_pending = at_entry.irq_pending
       /\ claim_complete = at_entry.claim_complete

\* C20 witness: a fault just past the PLIC window with a valid (non-zero,
\* non-pseudo) htinst was answered DeviceNotFound, after an interrupt had
\* been latched by an earlier trap.
C20_Witness ==
    /\ GpfHandled /\ htval * 4 = PLIC_BASE + PLIC_SIZE /\ htinst = 8563
    /\ err = "DeviceNotFound" /\ pc = "drop"
    /\ irq_pending /\ claim_complete[ContextId(guest_id)] = 10

\* The single area of SpecArea, and the pages of its range.
TheArea == areas[1]
AreaRange(a) == a.vpn_range.start .. (a.vpn_range.end - 1)

\* C14: after MapArea::map on a Linear area M, for every vpn in
\* [M.start_vpn, M.end_vpn) the page-table lookup returns
\* ppn = M.start_ppn + (vpn - M.start_vpn) with exactly the flags of
\* M.map_perm, whatever was mapped there before.
C14_LinearMapIsLinear ==
    (input.kind = "area" /\ mpc = "map" /\ TheArea.map_type = "Linear")
    => \A vpn \in AreaRange(TheArea) :
          /\ vpn \in DOMAIN page_table
          /\ translate(page_table, vpn).ppn =
                 TheArea.ppn_range.start + (vpn - TheArea.vpn_range.start)
          /\ translate(page_table, vpn).flags = TheArea.map_perm

\* C14 witness: map returned on a Linear area of three pages with
\* permission R+X+U (26), and the pages are mapped to pages 8, 9 and 10.
C14_Witness ==
    /\ input.kind = "area" /\ mpc = "map" /\ TheArea.map_type = "Linear"
    /\ TheArea.vpn_range = [start |-> 0, end |-> 3]
    /\ TheArea.map_perm = 26
    /\ page_table[2] = [ppn |-> 10, flags |-> 26]
    /\ page_table[0].ppn = 8

\* The frames of a Framed area agree with the page table: data_frames has a
\* frame exactly for the mapped VPNs, the frame of a VPN is the ppn of its
\* entry, no frame backs two VPNs, and these are the frames in use.
FramesMatchPageTable ==
    LET df == TheArea.data_frames
    IN  /\ DOMAIN df = DOMAIN page_table
        /\ \A v \in DOMAIN df : page_table[v].ppn = df[v]
        /\ \A v, w \in DOMAIN df : df[v] = df[w] => v = w
        /\ frames_in_use = { df[v] : v \in DOMAIN df }

FramedArea == input.kind = "area" /\ TheArea.map_type = "Framed"

\* C15: after any sequence of map, map_one, unmap_one and unmap on a Framed
\* MapArea, data_frames holds exactly one owned frame for each currently
\* mapped VPN and none for unmapped VPNs, each frame's PPN equals the
\* page-table entry of its VPN, and right after map
\* |data_frames| = end_vpn - start_vpn.
C15_FramedFrames ==
    FramedArea
    => /\ FramesMatchPageTable
       /\ mpc = "map"
          => Cardinality(DOMAIN TheArea.data_frames) =
                TheArea.vpn_range.end - TheArea.vpn_range.start

\* new_guest has built the area of a PT_LOAD segment.
SegmentBuilt == input.kind = "guest" /\ loader.map_area.ppn_range.some

\* C13: every Linear MapArea that new_guest builds for a PT_LOAD segment has
\* end_vpn - start_vpn = end_ppn - start_ppn, whatever the segment's virtual
\* address (page-aligned or not) and mem_size, so that the length assertion
\* of MapArea::map does not fail while the guest is built.
C13_SegmentLengthsAgree ==
    SegmentBuilt
    => /\ loader.map_area.vpn_range.end - loader.map_area.vpn_range.start
             = loader.map_area.ppn_range.end
                  - loader.map_area.ppn_range.start
       /\ mpc # "panicked"

IsLoad(ph) == ph.type = "Load"

\* The image byte a guest read of address va returns through the G-stage
\* mapping, or -1 when va is not mapped or nothing was copied there.
GuestByte(va) ==
    IF floor(va) \in DOMAIN page_table
    THEN ByteAt(guest_mem, Len(guest_mem),
                Addr(translate(page_table, floor(va)).ppn, va.off))
    ELSE -1

\* C16: round trip of new_guest: once the guest is built, for every PT_LOAD
\* segment and every i < file_size, the byte read through the G-stage
\* mapping at guest address virtual_addr + i is byte i of the segment in the
\* image (the image byte at offset + i), for every segment virtual address.
C16_LoadRoundTrip ==
    (input.kind = "guest" /\ mpc = "done")
    => \A k \in 1 .. Len(input.elf) :
          IsLoad(input.elf[k])
          => \A i \in 0 .. input.elf[k].file_size - 1 :
                GuestByte(AddrAdd(input.elf[k].virtual_addr, i))
                    = input.elf[k].offset + i

\* U plus R/W/X as the PF_R (4), PF_W (2), PF_X (1) bits of the flags say.
PermOfFlags(flags) ==
    16 + (IF (flags \div 4) % 2 = 1 THEN 2 ELSE 0)
       + (IF (flags \div 2) % 2 = 1 THEN 4 ELSE 0)
       + (IF flags % 2 = 1 THEN 8 ELSE 0)

\* The areas recorded are: one Linear area per PT_LOAD header, in header
\* order, with the permission of its flags; one R+W+X+U Linear tail area
\* ending at GUEST_START_VA + gpm_size; one R+W+U Linear area per MMIO region
\* in the order test finisher, virtio, UART, CLINT, PLIC.
AreasAsLoaded ==
    LET loads == SelectSeq(input.elf, IsLoad)
        n == Len(loads)
        m == input.machine
        regions == m.test_finisher_address \o m.virtio \o m.uart \o m.clint
                      \o m.plic
    IN  /\ Len(areas) = n + 1 + Len(regions)
        /\ \A k \in 1 .. Len(areas) : areas[k].map_type = "Linear"
        /\ \A k \in 1 .. n :
              /\ areas[k].vpn_range.start = loads[k].virtual_addr.page
              /\ areas[k].map_perm = PermOfFlags(loads[k].flags)
        /\ areas[n + 1].map_perm = 30
        /\ areas[n + 1].vpn_range.end =
              GUEST_START_VA.page + input.gpm_size \div PAGE_SIZE
        /\ \A k \in 1 .. Len(regions) :
              /\ areas[n + 1 + k].vpn_range.start =
                    regions[k].base_address \div PAGE_SIZE
              /\ areas[n + 1 + k].map_perm = 22

\* C17: when new_guest returns the areas are as above, and new_guest does
\* return for the two-segment ELF of scenario S5 loaded into 128 MiB on a
\* machine with all the devices of the scenario: it neither panics nor
\* stays in a loop.
C17_GuestAreas ==
    /\ (input.kind = "guest" /\ mpc = "done") => AreasAsLoaded
    /\ (input.kind = "guest" /\ input.elf = S5Elf /\ input.machine.plic # << >>)
       => mpc \notin { "panicked", "looping" }

\* Every page from address a up to address b (both on page boundaries) is
\* mapped with exactly the flags `flags`.
PagesHave(a, b, flags) ==
    \A vpn \in a.page .. (b.page - 1) :
       vpn \in DOMAIN page_table /\ page_table[vpn].flags = flags

\* C18: in the host memory set built by new_host_vmm, from the push of a
\* section on and through every later push, every page of .text has exactly
\* R+X (10), every page of .rodata exactly R (2), every page of .data and
\* of .bss exactly R+W (6): no page of .text or .rodata is writable, no page
\* of .data is executable, and the asserts of remap_test pass on the
\* finished memory set.
C18_HostSectionPerms ==
    input.kind = "host"
    => LET l == input.layout
       IN  /\ Len(areas) >= 2 => PagesHave(l.stext, l.etext, 10)
           /\ Len(areas) >= 3 => PagesHave(l.srodata, l.erodata, 2)
           /\ Len(areas) >= 4 => PagesHave(l.sdata, l.edata, 6)
           /\ Len(areas) >= 5 => PagesHave(l.sbss_with_stack, l.ebss, 6)
           /\ mpc = "done" => remap_test

\* C18 witness: new_host_vmm has returned on the machine with a test
\* finisher, two virtio devices and a PLIC (ten areas), for an image with two
\* pages of .text and two of .rodata; the last page of .rodata is read-only.
C18_Witness ==
    /\ input.kind = "host" /\ mpc = "done"
    /\ Len(areas) = 10
    /\ input.layout.etext = Addr(524802, 0)
    /\ input.layout.erodata = Addr(524804, 0)
    /\ page_table[524801].flags = 10
    /\ page_table[524803].flags = 2
    /\ remap_test

----------------------------------------------------------------------------
(* C21..C28: the error paths of the page-fault handler, the pending flag,  *)
(* the lock, and the ranges of the guest memory set.                       *)

\* guest_page_fault_handler has returned for a load/store fault in the PLIC
\* window whose htinst is 0: the instruction had to be fetched.
FetchHandled ==
    /\ GpfHandled
    /\ is_plic_access(htval * 4)
    /\ htinst = 0

\* The translation of the guest pc gave None: decode_inst_at_addr was not
\* reached.
TranslationFailed == FetchHandled /\ decoded = NoDecode

\* The translation succeeded and the instruction did not decode.
DecodeFailed == FetchHandled /\ decoded # NoDecode /\ decoded.inst = "None"

\* The instruction decoded and the PLIC access emulator returned an error.
EmulationFailed ==
    FetchHandled /\ decoded # NoDecode /\ decoded.inst # "None"
                 /\ err # "None"

\* C21: on a PLIC-window guest-page fault with htinst = 0, a failed
\* translation of ctx.sepc is reported as TranslationError and an
\* instruction that does not decode as DecodeInstError, in both cases
\* without a call of the PLIC emulator; in these two cases and when the
\* emulator returns an error ctx.sepc is what it was at entry.
C21_FetchErrorsKeepSepc ==
    /\ TranslationFailed
       => /\ err = "TranslationError" /\ plic_calls = << >>
          /\ ctx.sepc = at_entry.ctx.sepc
    /\ DecodeFailed
       => /\ err = "DecodeInstError" /\ plic_calls = << >>
          /\ ctx.sepc = at_entry.ctx.sepc
    /\ EmulationFailed
       => /\ Len(plic_calls) = 1
          /\ ctx.sepc = at_entry.ctx.sepc
    /\ FetchHandled => xlate_calls = << at_entry.ctx.sepc >>

\* C21 witness: an instruction that did not decode was reported and the
\* error reached the sink.  The other two errors do as well.
C21_Witness ==
    DecodeFailed /\ err = "DecodeInstError" /\ Has(trace, "sink")

C21_WitnessTranslation ==
    TranslationFailed /\ err = "TranslationError" /\ Has(trace, "sink")

C21_WitnessEmulator ==
    EmulationFailed /\ err = "PlicError" /\ Has(trace, "sink")

\* guest_page_fault_handler has returned, or stopped, for a load/store fault
\* in the PLIC window whose htinst is 0x3020 or 0x3000.
PseudoInstFault ==
    /\ GpfHandled
    /\ is_plic_access(htval * 4)
    /\ htinst \in { 12320, 12288 }

\* C22: on a PLIC-window guest-page fault with htinst = 0x3020 or 0x3000
\* the handler returns PseudoInst; the guest pc is not translated, the PLIC
\* emulator is not called and the TrapContext, ctx.sepc with it, is what it
\* was at entry.
C22_PseudoInstReported ==
    PseudoInstFault
    => /\ err = "PseudoInst"
       /\ xlate_calls = << >>
       /\ plic_calls = << >>
       /\ decoded = NoDecode
       /\ ctx = at_entry.ctx
       /\ pc \in { "drop", "sink", "panicked" }

\* C22 witness: a fault with htinst = 0x3000 was reported and reached the
\* sink.
C22_Witness ==
    /\ PseudoInstFault /\ htinst = 12288
    /\ err = "PseudoInst" /\ Has(trace, "sink")

\* The guest's read of its claim/complete register was emulated in this
\* trap: the fetched instruction is a load and the emulator returned Ok.
ClaimEmulated ==
    /\ FetchHandled /\ decoded.inst = "Lw"
    /\ Len(plic_calls) = 1 /\ err = "None"

LinearEqualLengths ==
    /\ input.kind = "area"
    /\ TheArea.map_type = "Linear" /\ TheArea.ppn_range.some
    /\ TheArea.vpn_range.end - TheArea.vpn_range.start
          = TheArea.ppn_range.end - TheArea.ppn_range.start

\* C24: MapArea::map on a Linear area whose vpn and ppn ranges have equal
\* length returns, and the pages mapped afterwards are those mapped before
\* and the end_vpn - start_vpn pages of the range, no other; with an empty
\* range (start = end, as the PLIC area of new_guest) it maps nothing and
\* returns.
C24_MapTerminates ==
    [][ (LinearEqualLengths /\ mpc' \in { "map", "looping" })
        => /\ mpc' = "map"
           /\ DOMAIN page_table' =
                 DOMAIN page_table \cup AreaRange(TheArea) ]_vars

\* C25: while one trap is handled the HostVmm lock is never requested by
\* the hart that holds it: whatever the cause, the lock is taken at most
\* once per trap and the hart never waits for it.
C25_NoSelfDeadlock ==
    /\ pc # "spinning"
    /\ ~Has(trace, "lock_wait")
    /\ Count(trace, "lock") <= 1

\* The PT_LOAD headers of the ELF being loaded.
Loads == SelectSeq(input.elf, IsLoad)

\* Every PT_LOAD segment lies inside [GUEST_START_VA, GUEST_START_VA +
\* gpm_size).
SegmentsInside ==
    \A k \in 1 .. Len(Loads) :
       /\ AddrSub(Loads[k].virtual_addr, GUEST_START_VA) >= 0
       /\ AddrSub(Loads[k].virtual_addr, GUEST_START_VA) + Loads[k].mem_size
             <= input.gpm_size

\* Two ranges [start, end) have no element in common.
Disjoint(r, q) == r.end <= q.start \/ q.end <= r.start \/ r.end <= r.start
                     \/ q.end <= q.start

\* The pages of a segment.
SegmentPages(ph) ==
    [start |-> floor(ph.virtual_addr),
     end |-> ceil(AddrAdd(ph.virtual_addr, ph.mem_size))]

\* No two PT_LOAD segments of the ELF share a page.
SegmentsApart ==
    \A j, k \in 1 .. Len(Loads) :
       j # k => Disjoint(SegmentPages(Loads[j]), SegmentPages(Loads[k]))

\* C26: in the GuestMemorySet that new_guest returns for an ELF whose
\* PT_LOAD segments lie inside the guest's memory (and share no page), the
\* VPN ranges of the recorded areas (segments, tail, MMIO) are pairwise
\* disjoint; so also for segments with a gap between them, as in S5.
C26_AreasDisjoint ==
    (input.kind = "guest" /\ mpc = "done" /\ SegmentsInside /\ SegmentsApart)
    => \A j, k \in 1 .. Len(areas) :
          j # k => Disjoint(areas[j].vpn_range, areas[k].vpn_range)

\* The areas recorded so far for the guest's memory: one per PT_LOAD segment,
\* then the tail.
GuestAreas ==
    SubSeq(areas, 1,
           IF Len(areas) <= Len(Loads) + 1 THEN Len(areas)
           ELSE Len(Loads) + 1)

\* The page after the guest's host memory.
GuestEndPpn == GUEST_START_PA.page + input.gpm_size \div PAGE_SIZE

\* The tail area has been pushed.
TailPushed == mpc \in { "trampoline", "mmio", "done" }

\* C27: the host-physical ranges new_guest gives to the segments and to the
\* tail are consecutive from GUEST_START_PA (each starts where the one
\* before ended), none extends past GUEST_START_PA + gpm_size, and once the
\* segments are recorded the tail is pushed too (its push returns) and ends
\* at GUEST_START_PA + gpm_size; for every ELF, also one whose page-rounded
\* segments are larger than gpm_size.
C27_PhysicalRanges ==
    input.kind = "guest"
    => /\ \A k \in 1 .. Len(GuestAreas) :
             /\ GuestAreas[k].ppn_range.start =
                   (IF k = 1 THEN GUEST_START_PA.page
                    ELSE GuestAreas[k - 1].ppn_range.end)
             /\ GuestAreas[k].ppn_range.start <= GuestAreas[k].ppn_range.end
             /\ GuestAreas[k].ppn_range.end <= GuestEndPpn
       /\ TailPushed
          => /\ Len(GuestAreas) = Len(Loads) + 1
             /\ GuestAreas[Len(GuestAreas)].ppn_range.end = GuestEndPpn
       /\ ~(mpc \in { "panicked", "looping" } /\ Len(areas) = Len(Loads))

\* What maybe_forward_interrupt would leave when called on the current
\* state with irq_pending = p.
ForwardResult(p) == maybe_forward_interrupt(p, ctx, scause)

\* C28: maybe_forward_interrupt changes nothing when it does not forward.
\* Called with irq_pending false, or with irq_pending true while neither
\* (spp = 1 and sie = 1) nor (spp = 0 and vsip & vsie # 0) holds, it leaves
\* ctx, vsepc and vscause as they are; after an external interrupt that is
\* not forwarded vsepc, vscause and the TrapContext are those of trap entry
\* and the guest resumes at the interrupted pc; forwarded or not,
\* irq_pending and claim_complete are as handle_irq left them.
C28_NoForwardNoChange ==
    /\ (pc = "dispatch" /\ scause = "SupervisorExternal")
       => \A p \in BOOLEAN :
             (~p \/ ~GuestTakesInterrupt)
             => /\ ForwardResult(p).ctx = ctx
                /\ ForwardResult(p).vsepc = vsepc
                /\ ForwardResult(p).vscause = vscause
                /\ ~ForwardResult(p).forwarded
    /\ (IrqHandled /\ ~GuestTakesInterrupt)
       => /\ ctx = at_entry.ctx
          /\ vsepc = at_entry.vsepc
          /\ vscause = at_entry.vscause
          /\ ~Has(trace, "forward")
          /\ pc \in { "drop" } \cup SwitchPcs \cup { "guest" }
    /\ IrqHandled
       => /\ irq_pending
          /\ claim_complete =
                handle_irq(at_entry.claim_complete, guest_id,
                           host_plic_reads[1].value)

\* C28 witness: an external interrupt arrived while the guest was in VU-mode
\* with the interrupt pending in vsip and not enabled in vsie; it was not
\* forwarded and the guest runs again at the interrupted pc.
C28_Witness ==
    /\ Resumed /\ IrqHandled
    /\ ~vsstatus.spp /\ vsip = {9} /\ vsie = {5}
    /\ ctx.sepc = at_entry.ctx.sepc /\ at_entry.ctx.sepc = 8194
    /\ irq_pending /\ claim_complete[ContextId(guest_id)] = 10

====
